---- MODULE Spec2Model ----
(***************************************************************************)
(* Beam-search decoding of mimo: GenerationModel.translate_batch           *)
(* (src/mimo/model/model.py) driving one Beam per source instance, and     *)
(* the preprocessing program main() of src/mimo/model/preprocess.py.       *)
(* Spec runs translate_batch with one target, MultiSpec with one or two    *)
(* targets, PreSpec runs the preprocessing.                                *)
(*                                                                         *)
(* The Beam class (mimo/model/decode.py) is modelled from section 4.1 of   *)
(* the specification.                                                      *)
(* The decoder and the encoder are external collaborators: the encoder is  *)
(* a pure function of a source row, the decoder a pure function of         *)
(* (partial target row, source row, encoder row) drawn at Init from a      *)
(* bounded family of deterministic stubs.                                  *)
(*                                                                         *)
(* Indices are Python's: batch positions, slots, token ids and block       *)
(* numbers count from 0.  Tensors are sequences of rows (1..n); block b    *)
(* of a tensor with `per` rows per block is rows b*per+1 .. b*per+per.     *)
(***************************************************************************)
EXTENDS Integers, Sequences, FiniteSets, TLC

\* ------------------------------------------------------------- bounds
MaxBatch == 3
BeamSize == 2
VocabSize == 4
NMaxSeq == 3
MaxNBest == 3

\* ------------------------------------------------- special token ids
BOS == 0
EOS == 1

Vocab == 0 .. (VocabSize - 1)
Slots == 0 .. (BeamSize - 1)
Styles == {"flat", "rot", "skew"}

VARIABLES
    pc,                  \* position in translate_batch
    stub,                \* the decoder stub of this run (fixed at Init)
    n_best,              \* self.n_best
    batch_size,          \* src_seq.size(0) of src_batch
    batch_inits,         \* [given |-> BOOLEAN, toks |-> sequence]
    ki,                  \* index in Keys of the target being decoded
    results,             \* key -> [hyp, scores]
    enc_calls,           \* encoder invocations so far
    dec_calls,           \* decoder invocations for the current target
    src_seq,             \* working source tensor (rows)
    enc_output,          \* working encoder output (rows)
    beams,               \* batch position -> Beam
    beam_inst_idx_map,   \* batch position -> block in the working tensors
    n_remaining_sents,
    i,                   \* decode loop counter
    word_lk,             \* sequence of blocks, block = [slot -> [token -> lp]]
    active_beam_idx_list,
    beam_idx,            \* counter of the advance loop
    ret,                 \* batch position -> last value advance returned
    err,                 \* the exception raised, "" when none
    decoders,            \* self.model.decoders: sequence of [k, model]
    \* preprocess.py
    ppc,                 \* position in main
    opt,                 \* the parameters of main
    rd,                  \* the frame of the running read_instances call
    word2idx,            \* the module-level dictionary
    mn,                  \* the local variables of main
    built,               \* the mappings build_vocab_idx returned, as returned
    perr                 \* the exception raised by main, "" when none

\* The variables of translate_batch and those of the preprocessing.
dvars == <<pc, stub, n_best, batch_size, batch_inits, ki, results, enc_calls,
           dec_calls, src_seq, enc_output, beams, beam_inst_idx_map,
           n_remaining_sents, i, word_lk, active_beam_idx_list, beam_idx,
           ret, err, decoders>>
pvars == <<ppc, opt, rd, word2idx, mn, built, perr>>
vars == <<dvars, pvars>>

\* The targets in the order translate_batch decodes them.
Keys == [j \in DOMAIN decoders |-> decoders[j].k]

\* ------------------------------------------------------------ scores
\* A cumulative score is a log-probability (an integer here) or minus
\* infinity; minus infinity absorbs addition and is below every number.
NegInf == [inf |-> TRUE, val |-> 0]
Fin(n) == [inf |-> FALSE, val |-> n]
Plus(s, n) == IF s.inf THEN NegInf ELSE Fin(s.val + n)
Less(a, b) == IF b.inf THEN FALSE ELSE IF a.inf THEN TRUE ELSE a.val < b.val

\* -------------------------------------------------------------- Beam
\* Variant of Beam whose slots all start with score 0.
Beam_all_zero(width, init) ==
    [init |-> init,
     tokens |-> [s \in 0 .. (width - 1) |-> <<>>],
     backpointers |-> <<>>,
     scores |-> [s \in 0 .. (width - 1) |-> Fin(0)],
     done |-> FALSE]

\* Beam(width, init): every slot starts with the init token; slot 0 scores
\* 0 and the others minus infinity.
Beam(width, init) ==
    [init |-> init,
     tokens |-> [s \in 0 .. (width - 1) |-> <<>>],
     backpointers |-> <<>>,
     scores |-> [s \in 0 .. (width - 1) |-> IF s = 0 THEN Fin(0) ELSE NegInf],
     done |-> FALSE]

Width(beam) == Cardinality(DOMAIN beam.scores)
Steps(beam) == Len(beam.backpointers)

\* Variant of Walk that stays on its slot instead of following the
\* backpointers.
Walk_same_slot(beam, slot, j) == SubSeq(beam.tokens[slot], 1, j)

\* get_hypothesis(slot): the backpointer chain walked from the last step
\* back to step 1, returned oldest token first, without the init token.
RECURSIVE Walk(_, _, _)
Walk(beam, slot, j) ==
    IF j = 0 THEN <<>>
    ELSE Append(Walk(beam, beam.backpointers[j][slot], j - 1),
                beam.tokens[slot][j])

get_hypothesis(beam, slot) == Walk(beam, slot, Steps(beam))

\* get_current_state(): per slot the init token followed by the tokens of
\* the slot's hypothesis so far.
get_current_state(beam) ==
    [s \in DOMAIN beam.scores |-> <<beam.init>> \o get_hypothesis(beam, s)]

\* Variant of Better that breaks ties by the higher index.
Better_ties_high(flat, f, g) ==
    \/ Less(flat[g], flat[f])
    \/ (~Less(flat[f], flat[g]) /\ f > g)

\* Rank of flattened candidates: a better candidate has a higher score, or
\* the same score and a lower flattened index.
Better(flat, f, g) ==
    \/ Less(flat[g], flat[f])
    \/ (~Less(flat[f], flat[g]) /\ f < g)

RECURSIVE TopK(_, _, _)
TopK(flat, cands, k) ==
    IF k = 0 \/ cands = {} THEN <<>>
    ELSE LET best == CHOOSE f \in cands :
                        \A g \in cands \ {f} : Better(flat, f, g)
         IN <<best>> \o TopK(flat, cands \ {best}, k - 1)

\* Variant of top_is_eos that looks at every selected candidate.
any_is_eos(chosen) == \E s \in DOMAIN chosen : chosen[s] = EOS

\* Step 5 of advance: the highest-ranked candidate's token is EOS.
top_is_eos(chosen) == chosen[0] = EOS

\* advance(word_lk): the beam after one step.
advance(beam, lk) ==
    LET w == Width(beam)
        nv == Cardinality(DOMAIN lk[0])
        flat == [f \in 0 .. (w * nv - 1) |->
                    Plus(beam.scores[f \div nv], lk[f \div nv][f % nv])]
        top == TopK(flat, DOMAIN flat, w)
    IN [init |-> beam.init,
        tokens |-> [s \in DOMAIN beam.scores |->
                       Append(beam.tokens[s], top[s + 1] % nv)],
        backpointers |-> Append(beam.backpointers,
                           [s \in DOMAIN beam.scores |-> top[s + 1] \div nv]),
        scores |-> [s \in DOMAIN beam.scores |-> flat[top[s + 1]]],
        done |-> top_is_eos([s \in DOMAIN beam.scores |-> top[s + 1] % nv])]

\* What advance hands back to translate_batch: truthy once the beam has
\* finished (translate_batch keeps a beam while the value is falsy).
advance_returns(beam_after) == beam_after.done

\* sort_scores(): slots by descending score, ties by ascending slot.
RECURSIVE SortSlots(_, _)
SortSlots(scores, left) ==
    IF left = {} THEN <<>>
    ELSE LET best == CHOOSE s \in left :
                        \A t \in left \ {s} : Better(scores, s, t)
         IN <<best>> \o SortSlots(scores, left \ {best})

sort_scores(beam) ==
    LET idx == SortSlots(beam.scores, DOMAIN beam.scores)
    IN [scores |-> [j \in 1 .. Len(idx) |-> beam.scores[idx[j]]],
        tail_idxs |-> idx]

\* ------------------------------------------------- encoder and decoder
\* The source row of batch position b: BOS, then a token telling the
\* instances apart.
SrcRow(b) == <<BOS, b>>
EncRow(src_row) == <<"enc", src_row>>

\* The stub decoder's log-probabilities for one row.  At the step st.fin
\* names for the instance, EOS scores highest; at the other steps the
\* style decides: "flat" ties every token, "rot" rotates the best token
\* with the prefix, "skew" penalises the rows whose prefix ends in token 2
\* so that a lower-ranked slot overtakes slot 0.
StubRow(st, src_row, enc_row, prefix) ==
    LET step == Len(prefix)
        last == prefix[Len(prefix)]
        c == src_row[2]
    IN [v \in Vocab |->
          IF enc_row # EncRow(src_row) THEN -(v % 2)
          ELSE IF step = st.fin[c]
               THEN (IF v = EOS THEN 0 ELSE -1 - ((v + last) % 2))
          ELSE CASE st.style = "flat" -> 0
                 [] st.style = "rot" -> -((v + last + step + c) % 3)
                 [] OTHER -> IF v = EOS THEN -6
                             ELSE -((v + 1) % 3)
                                  - (IF last = 2 THEN 2 + (c % 2) ELSE 0)]

\* --------------------------------------------------- tensor operations
\* x.repeat(1, beam_size).view(rows * beam_size, ...): every row of the
\* batch becomes beam_size consecutive identical rows.
repeat_for_beam(rows, beam_size) ==
    [r \in 1 .. (Len(rows) * beam_size) |-> rows[((r - 1) \div beam_size) + 1]]

\* Variant of select_blocks that takes the leading blocks, as many as
\* there are indices.
select_blocks_leading(t, per, idxs) ==
    [r \in 1 .. (Len(idxs) * per) |-> t[r]]

\* index_select(0, idxs) on a tensor viewed as blocks of `per` rows.
select_blocks(t, per, idxs) ==
    [r \in 1 .. (Len(idxs) * per) |->
        t[idxs[((r - 1) \div per) + 1] * per + ((r - 1) % per) + 1]]

\* Variant of update_active_seq that hands back the tensor with every
\* row kept.
update_active_seq_all_rows(seq_var, active_inst_idxs, n_rem) ==
    [ok |-> TRUE, val |-> seq_var]

\* update_active_seq: the rows of the blocks named by active_inst_idxs, or
\* the error torch raises (a view whose size does not fit, an index out of
\* range).  n_rem is the n_remaining_sents the closure reads.
update_active_seq(seq_var, active_inst_idxs, n_rem) ==
    LET inst_idx_dim_size == (Len(seq_var) * Len(active_inst_idxs)) \div n_rem
        viewable == Len(seq_var) % n_rem = 0
        per == Len(seq_var) \div n_rem
        in_range == \A j \in 1 .. Len(active_inst_idxs) :
                       active_inst_idxs[j] \in 0 .. (n_rem - 1)
    IN IF ~viewable \/ ~in_range
          \/ Len(active_inst_idxs) * per # inst_idx_dim_size
       THEN [ok |-> FALSE, val |-> <<>>]
       ELSE [ok |-> TRUE, val |-> select_blocks(seq_var, per, active_inst_idxs)]

\* Variant of update_active_enc_info that hands back the encoder output
\* with every row kept.
update_active_enc_info_all_rows(enc_info_var, active_inst_idxs, n_rem) ==
    [ok |-> TRUE, val |-> enc_info_var]

\* update_active_enc_info: the same selection on the encoder output.
update_active_enc_info(enc_info_var, active_inst_idxs, n_rem) ==
    LET inst_idx_dim_size == (Len(enc_info_var) * Len(active_inst_idxs)) \div n_rem
        viewable == Len(enc_info_var) % n_rem = 0
        per == Len(enc_info_var) \div n_rem
        in_range == \A j \in 1 .. Len(active_inst_idxs) :
                       active_inst_idxs[j] \in 0 .. (n_rem - 1)
    IN IF ~viewable \/ ~in_range
          \/ Len(active_inst_idxs) * per # inst_idx_dim_size
       THEN [ok |-> FALSE, val |-> <<>>]
       ELSE [ok |-> TRUE, val |-> select_blocks(enc_info_var, per, active_inst_idxs)]

\* The batch positions whose beam is not done, ascending.
RECURSIVE NotDoneFrom(_, _, _)
NotDoneFrom(bs, b, n) ==
    IF b >= n THEN <<>>
    ELSE (IF bs[b].done THEN <<>> ELSE <<b>>) \o NotDoneFrom(bs, b + 1, n)

NotDone(bs, n) == NotDoneFrom(bs, 0, n)

\* Variant of dec_partial_seq_of that gathers the state of every beam.
dec_partial_seq_of_all_beams(bs, n, beam_size) ==
    [r \in 1 .. (n * beam_size) |->
        get_current_state(bs[(r - 1) \div beam_size])[(r - 1) % beam_size]]

\* torch.stack([b.get_current_state() for b in beams if not b.done])
\* .view(-1, len_dec_seq): one row per slot of every beam not done.
dec_partial_seq_of(bs, n, beam_size) ==
    LET nd == NotDone(bs, n)
    IN [r \in 1 .. (Len(nd) * beam_size) |->
          get_current_state(bs[nd[((r - 1) \div beam_size) + 1]])[(r - 1) % beam_size]]

\* out.view(n_remaining_sents, beam_size, -1) of the decoder's output on
\* the rows given: block -> slot -> token -> log-probability.
word_lk_of(st, dec_rows, src_rows, enc_rows, n_rem, beam_size) ==
    [blk \in 1 .. n_rem |->
       [s \in 0 .. (beam_size - 1) |->
          StubRow(st, src_rows[(blk - 1) * beam_size + s + 1],
                  enc_rows[(blk - 1) * beam_size + s + 1],
                  dec_rows[(blk - 1) * beam_size + s + 1])]]

\* Variant of stays_active with the test of line 135 inverted.
stays_active_inverted(returned) == returned

\* A beam stays in the active list when advance returned a falsy value.
stays_active(returned) == ~returned

\* Variant of enumerate_map that keeps every beam at its batch position.
enumerate_map_keeps_positions(lst) ==
    [b \in {lst[j] : j \in 1 .. Len(lst)} |-> b]

\* The dictionary {beam_idx: inst_idx for inst_idx, beam_idx in
\* enumerate(lst)}.
enumerate_map(lst) ==
    [b \in {lst[j] : j \in 1 .. Len(lst)} |->
        (CHOOSE j \in 1 .. Len(lst) : lst[j] = b) - 1]

\* Variant of Prefix that slices one element short, [:n - 1].
Prefix_one_short(seq, n) ==
    [j \in 1 .. (IF n - 1 < Len(seq) THEN n - 1 ELSE Len(seq)) |-> seq[j]]

\* scores[:n_best] and [get_hypothesis(i) for i in tail_idxs[:n_best]].
Prefix(seq, n) == [j \in 1 .. (IF n < Len(seq) THEN n ELSE Len(seq)) |-> seq[j]]

extract_beam(beam, nb) ==
    LET st == sort_scores(beam)
    IN [scores |-> Prefix(st.scores, nb),
        hyps |-> [j \in DOMAIN Prefix(st.tail_idxs, nb) |->
                     get_hypothesis(beam, st.tail_idxs[j])]]

\* Variant of inits_accepted without the assertion of line 76.
inits_accepted_unchecked(inits, n) == TRUE

\* Lines 73-76: batch_inits is None, or as long as the batch.
inits_accepted(inits, n) == inits.given => Len(inits.toks) = n

\* Variant of loop_continues running one pass more, range(n_max_seq + 1).
loop_continues_one_more(cnt) == cnt <= NMaxSeq

\* Line 97: for i in range(decoder.n_max_seq) has a next value.
loop_continues(cnt) == cnt < NMaxSeq

\* Variant of break_taken that never leaves the loop early.
break_never_taken(lst) == FALSE

\* Line 138: if not active_beam_idx_list.
break_taken(lst) == lst = <<>>

\* Variant of passed_over that passes over no beam.
passed_over_never(beam) == FALSE

\* Lines 130-131: if beams[beam_idx].done: continue.
passed_over(beam) == beam.done

\* Variant of next_beam_idx that stays on the beam.
next_beam_idx_stuck(b) == b

\* Line 129: the value of range(batch_size) after b.
next_beam_idx(b) == b + 1

\* =====================================================================
\* Preprocessing (src/mimo/model/preprocess.py)
\* =====================================================================
\* ------------------------------------------------------------- bounds
MaxLines == 2
MaxSrcLen == 3
MaxMinCount == 1

\* ------------------------------------------- special words and ids
PAD == 2
UNK == 3
BOS_WORD == "<s>"
EOS_WORD == "</s>"
PAD_WORD == "<blank>"
UNK_WORD == "<unk>"

\* Lines 11-59.
targets ==
    <<[name |-> "given name", max_len |-> 3],
      [name |-> "family name", max_len |-> 3],
      [name |-> "sex or gender", max_len |-> 1],
      [name |-> "date of birth", max_len |-> 4],
      [name |-> "occupation", max_len |-> 3],
      [name |-> "country of citizenship", max_len |-> 4],
      [name |-> "date of death", max_len |-> 4],
      [name |-> "place of birth", max_len |-> 5],
      [name |-> "educated at", max_len |-> 7],
      [name |-> "member of sports team", max_len |-> 9],
      [name |-> "place of death", max_len |-> 5],
      [name |-> "position held", max_len |-> 9],
      [name |-> "participant of", max_len |-> 8],
      [name |-> "member of political party", max_len |-> 6],
      [name |-> "award received", max_len |-> 10],
      [name |-> "sport", max_len |-> 2]>>

\* normalize_relation_name: '<' + r.replace(' ', '_') + '>', tabulated on
\* the relation names that occur: those of targets and "spouse".
normalize_relation_name(r) ==
    CASE r = "given name" -> "<given_name>"
      [] r = "family name" -> "<family_name>"
      [] r = "sex or gender" -> "<sex_or_gender>"
      [] r = "date of birth" -> "<date_of_birth>"
      [] r = "occupation" -> "<occupation>"
      [] r = "country of citizenship" -> "<country_of_citizenship>"
      [] r = "date of death" -> "<date_of_death>"
      [] r = "place of birth" -> "<place_of_birth>"
      [] r = "educated at" -> "<educated_at>"
      [] r = "member of sports team" -> "<member_of_sports_team>"
      [] r = "place of death" -> "<place_of_death>"
      [] r = "position held" -> "<position_held>"
      [] r = "participant of" -> "<participant_of>"
      [] r = "member of political party" -> "<member_of_political_party>"
      [] r = "award received" -> "<award_received>"
      [] r = "sport" -> "<sport>"
      [] r = "spouse" -> "<spouse>"

\* Line 65: normalized name -> target.
target_config ==
    [k \in {normalize_relation_name(targets[j].name) : j \in DOMAIN targets} |->
        targets[CHOOSE j \in DOMAIN targets :
                   normalize_relation_name(targets[j].name) = k]]

MaxVal(f) == CHOOSE v \in {f[k] : k \in DOMAIN f} : \A k \in DOMAIN f : f[k] <= v

\* Lines 73-74: every target marker gets the id after the highest one.
RECURSIVE with_markers(_, _)
with_markers(w2i, j) ==
    IF j > Len(targets) THEN w2i
    ELSE with_markers((normalize_relation_name(targets[j].name)
                          :> MaxVal(w2i) + 1) @@ w2i, j + 1)

\* Lines 67-74: word2idx when the module has been imported.
word2idx_at_import ==
    with_markers((BOS_WORD :> BOS) @@ (EOS_WORD :> EOS)
                 @@ (PAD_WORD :> PAD) @@ (UNK_WORD :> UNK), 1)

\* Variant of head_slice that keeps one element more, seq[:n + 1].
head_slice_one_more(seq, n) ==
    [j \in 1 .. (IF n + 1 < Len(seq) THEN n + 1 ELSE Len(seq)) |-> seq[j]]

\* Python's seq[:n]; a negative n counts from the end.
head_slice(seq, n) ==
    LET m == IF n >= 0 THEN (IF n < Len(seq) THEN n ELSE Len(seq))
             ELSE (IF Len(seq) + n > 0 THEN Len(seq) + n ELSE 0)
    IN [j \in 1 .. m |-> seq[j]]

\* ------------------------------------------------------- the instances
\* A line of the data file: the keys it has, and their values.  A mention
\* is <<left, span, right>>, relations the items of a dictionary in order.
Mention1 == <<<<"a">>, <<>>, <<>>>>
Mention2 == <<<<>>, <<"a">>, <<"a">>>>
AllKeys == {"_id", "summary", "mentions", "relations"}

Instance(keys, summary, mentions, relations) ==
    [keys |-> keys, summary |-> summary, mentions |-> mentions,
     relations |-> relations]

Instances ==
    <<Instance(AllKeys, <<"s">>, <<Mention1, Mention2>>,
               <<<<"given name", <<"a", "d", "a", "d">>>>,
                 <<"spouse", <<"a">>>>,
                 <<"sex or gender", <<"a", "d">>>>>>),
      Instance(AllKeys, <<"s">>, <<Mention1>>,
               <<<<"sex or gender", <<"a">>>>>>),
      Instance(AllKeys \ {"summary"}, <<>>, <<Mention1>>,
               <<<<"given name", <<"a">>>>>>),
      Instance(AllKeys \ {"mentions"}, <<>>, <<>>,
               <<<<"given name", <<"a">>>>>>),
      Instance(AllKeys \ {"relations"}, <<"s">>, <<>>, <<>>),
      Instance(AllKeys, <<"s">>, <<Mention2>>, <<<<"spouse", <<"a">>>>>>),
      Instance(AllKeys, <<"s">>, <<Mention2>>, <<<<"given name", <<>>>>>>),
      Instance(AllKeys, <<"s">>, <<Mention1>>, <<>>),
      Instance(AllKeys \ {"mentions"}, <<"s">>, <<>>,
               <<<<"given name", <<"a">>>>>>),
      Instance(AllKeys \ {"relations"}, <<"s">>, <<Mention1>>, <<>>)>>

\* instance['_id'] of the j-th instance.
IdOf(j) == j

\* --------------------------------------------- encode_mimo_instance
\* Lines 83-87: the (normalized name, value) pairs of the relations that
\* are configured targets with a non-empty value.
RECURSIVE qualifying_relations(_, _)
qualifying_relations(items, j) ==
    IF j > Len(items) THEN <<>>
    ELSE LET k == normalize_relation_name(items[j][1])
             v == items[j][2]
         IN (IF k \in DOMAIN target_config /\ v # <<>>
             THEN <<<<k, v>>>> ELSE <<>>)
            \o qualifying_relations(items, j + 1)

\* d[k] = v on a dictionary kept as the sequence of its items.
dict_set(d, k, v) ==
    IF \E j \in DOMAIN d : d[j][1] = k
    THEN [j \in DOMAIN d |-> IF d[j][1] = k THEN <<k, v>> ELSE d[j]]
    ELSE Append(d, <<k, v>>)

\* Line 104: {name: [BOS_WORD] + target[:max_len] + [EOS_WORD] ...}.
RECURSIVE target_dict(_, _)
target_dict(relations, j) ==
    IF j = 0 THEN <<>>
    ELSE dict_set(target_dict(relations, j - 1), relations[j][1],
                  <<BOS_WORD>>
                  \o head_slice(relations[j][2],
                                target_config[relations[j][1]].max_len)
                  \o <<EOS_WORD>>)

\* Line 96.
source_of(mention) ==
    mention[1] \o <<"|">> \o mention[2] \o <<"|">> \o mention[3]

\* Variant of summary_usable that lets every instance through.
summary_unchecked(instance) == TRUE

\* Line 78, negated: the instance has a summary that is not empty.
summary_usable(instance) ==
    "summary" \in instance.keys /\ instance.summary # <<>>

\* encode_mimo_instance: the exception raised ("" when none) and the lists
\* it can return; random.sample picks one mention (num_inputs = 1).
encode_mimo_instance(iid, instance, max_src_len) ==
    IF ~summary_usable(instance)
    THEN [raised |-> "", returns |-> {<<>>}]
    ELSE IF "mentions" \notin instance.keys
    THEN [raised |-> "KeyError", returns |-> {}]
    ELSE IF instance.mentions = <<>>
    THEN [raised |-> "", returns |-> {<<>>}]
    ELSE IF "relations" \notin instance.keys
    THEN [raised |-> "KeyError", returns |-> {}]
    ELSE LET relations == qualifying_relations(instance.relations, 1)
         IN IF relations = <<>>
            THEN [raised |-> "", returns |-> {<<>>}]
            ELSE [raised |-> "",
                  returns |->
                    {<<[iid |-> iid,
                        src |-> <<BOS_WORD>>
                                \o head_slice(source_of(instance.mentions[m]),
                                              max_src_len)
                                \o <<EOS_WORD>>,
                        tgt |-> target_dict(relations, Len(relations))]>> :
                     m \in DOMAIN instance.mentions}]

\* ---------------------------------------------------- build_vocab_idx
\* Line 134: the set of the words of word_insts.
full_vocab(word_insts) ==
    UNION {{word_insts[s][j] : j \in DOMAIN word_insts[s]} :
              s \in DOMAIN word_insts}

\* Lines 137-141: the occurrences of every word.
word_count(word_insts) ==
    LET places == UNION {{<<s, j>> : j \in DOMAIN word_insts[s]} :
                            s \in DOMAIN word_insts}
    IN [w \in full_vocab(word_insts) |->
          Cardinality({q \in places : word_insts[q[1]][q[2]] = w})]

\* Lines 144-149 over the words in the order the dictionary yields them:
\* a new word that occurs more than min_word_count times gets the next id.
RECURSIVE add_words(_, _, _, _, _)
add_words(w2i, order, j, count, min_word_count) ==
    IF j > Len(order) THEN w2i
    ELSE LET word == order[j]
         IN add_words(IF word \notin DOMAIN w2i /\ count[word] > min_word_count
                      THEN (word :> Cardinality(DOMAIN w2i)) @@ w2i
                      ELSE w2i,
                      order, j + 1, count, min_word_count)

\* The words of word_insts that the loop of lines 144-149 adds.
added_words(w2i, word_insts, min_word_count) ==
    {w \in full_vocab(word_insts) :
        w \notin DOMAIN w2i /\ word_count(word_insts)[w] > min_word_count}

\* The orders in which the words of a set can come.  word_count is filled
\* from a set (line 134), whose iteration order is not fixed; the words
\* the loop passes over leave the ids alone, so the order is drawn among
\* the words it adds.
RECURSIVE Orders(_)
Orders(S) ==
    IF S = {} THEN {<<>>}
    ELSE UNION {{<<w>> \o o : o \in Orders(S \ {w})} : w \in S}

\* build_vocab_idx on the module-level dictionary w2i: the dictionary as
\* the call leaves it; the call returns that same dictionary object.
build_vocab_idx(w2i, word_insts, min_word_count, order) ==
    add_words(w2i, order, 1, word_count(word_insts), min_word_count)

\* ------------------------------------------------------- conversion
\* Lines 158 and 162: word2idx[w] if w in word2idx else UNK.
idx_of(w, w2i) == IF w \in DOMAIN w2i THEN w2i[w] ELSE UNK

\* Line 158.
convert_instance_to_idx_seq(word_insts, w2i) ==
    [n \in DOMAIN word_insts |->
        [j \in DOMAIN word_insts[n] |-> idx_of(word_insts[n][j], w2i)]]

\* Line 162.
convert_mimo_instances_to_idx_seq(instances, w2i) ==
    [n \in DOMAIN instances |->
        [e \in DOMAIN instances[n] |->
            <<instances[n][e][1],
              [j \in DOMAIN instances[n][e][2] |->
                  idx_of(instances[n][e][2][j], w2i)]>>]]

\* Line 187: [tokens for inst in train_tgt_insts for tokens in inst.values()].
RECURSIVE values_of(_, _)
values_of(insts, n) ==
    IF n = 0 THEN <<>>
    ELSE values_of(insts, n - 1)
         \o [e \in DOMAIN insts[n] |-> insts[n][e][2]]

\* ------------------------------------------------- the state of main
\* limit=None, or a number of lines.
Limits ==
    {[given |-> FALSE, n |-> 0]}
    \cup {[given |-> TRUE, n |-> n] : n \in 1 .. MaxLines}

\* Lines 111-117: the frame of read_instances(path, max_src_len, limit);
\* line and pairs are the instance read last and what it was encoded to.
NewRead(path, limit) ==
    [path |-> path, limit |-> limit, num_instances |-> 0, line |-> 0,
     pairs |-> <<>>, iids |-> <<>>, src_inst |-> <<>>, tgt_inst |-> <<>>,
     broke |-> FALSE]

\* The name a vocabulary variable of main is bound to: the module-level
\* dictionary object, or nothing yet.
Deref(ref) == IF ref = "word2idx" THEN word2idx ELSE <<>>

PreIdle ==
    /\ ppc = "idle"
    /\ opt = <<>>
    /\ rd = <<>>
    /\ word2idx = <<>>
    /\ mn = <<>>
    /\ built = <<>>
    /\ perr = ""

\* ---------------------------------------------------------------- Init
\* Variant of src_batch_rows that keeps the working tensor of the target
\* decoded before, when there is one.
src_batch_rows_stale ==
    IF src_seq = <<>> THEN [j \in 1 .. batch_size |-> SrcRow(j - 1)]
    ELSE src_seq

\* Line 69: src_seq, src_pos = src_batch, the rows of the batch given.
src_batch_rows == [j \in 1 .. batch_size |-> SrcRow(j - 1)]

Stubs(n) ==
    [fin : [0 .. (n - 1) -> 1 .. (NMaxSeq + 1)], style : Styles]

InitTokens(n) ==
    {[given |-> FALSE, toks |-> <<>>]}
    \cup {[given |-> TRUE, toks |-> [j \in 1 .. m |-> BOS]] :
             m \in {n - 1, n, n + 1}}

Init ==
    /\ pc = "for_k"
    /\ batch_size \in 1 .. MaxBatch
    /\ decoders \in {<<[k |-> "given_name", model |-> m]>> :
                          m \in Stubs(batch_size)}
    /\ stub = decoders[1].model
    /\ n_best \in 1 .. MaxNBest
    /\ batch_inits \in InitTokens(batch_size)
    /\ ki = 1
    /\ results = <<>>
    /\ enc_calls = 0
    /\ dec_calls = 0
    /\ src_seq = <<>>
    /\ enc_output = <<>>
    /\ beams = <<>>
    /\ beam_inst_idx_map = <<>>
    /\ n_remaining_sents = 0
    /\ i = 0
    /\ word_lk = <<>>
    /\ active_beam_idx_list = <<>>
    /\ beam_idx = 0
    /\ ret = <<>>
    /\ err = ""
    /\ PreIdle

\* ------------------------------------------------------------- actions
Batch == 0 .. (batch_size - 1)

\* Lines 67-76: the assertion on batch_inits fails.
RaiseAssertion ==
    /\ pc = "for_k"
    /\ ki <= Len(Keys)
    /\ ~inits_accepted(batch_inits, batch_size)
    /\ pc' = "raised"
    /\ err' = "AssertionError"
    /\ UNCHANGED <<stub, n_best, batch_size, batch_inits, ki, results,
                   enc_calls, dec_calls, src_seq, enc_output, beams,
                   beam_inst_idx_map, n_remaining_sents, i, word_lk,
                   active_beam_idx_list, beam_idx, ret>>
    /\ UNCHANGED <<decoders, pvars>>

\* Lines 67-94: set-up of one target: inits, encoder, replication, beams.
\* batch_inits[i] of line 91 raises IndexError on a list that is too short.
BeginTarget ==
    /\ pc = "for_k"
    /\ ki <= Len(Keys)
    /\ inits_accepted(batch_inits, batch_size)
    /\ LET inits == IF batch_inits.given THEN batch_inits.toks
                    ELSE [j \in 1 .. batch_size |-> src_batch_rows[j][1]]
           src == src_batch_rows
           enc == [j \in DOMAIN src |-> EncRow(src[j])]
       IN /\ batch_inits' = [given |-> TRUE, toks |-> inits]
          /\ src_seq' = repeat_for_beam(src, BeamSize)
          /\ enc_output' = repeat_for_beam(enc, BeamSize)
          /\ IF Len(inits) >= batch_size
             THEN /\ beams' = [b \in Batch |-> Beam(BeamSize, inits[b + 1])]
                  /\ beam_inst_idx_map' = [b \in Batch |-> b]
                  /\ n_remaining_sents' = batch_size
                  /\ pc' = "loop"
                  /\ err' = err
             ELSE /\ pc' = "raised"
                  /\ err' = "IndexError"
                  /\ UNCHANGED <<beams, beam_inst_idx_map, n_remaining_sents>>
    /\ enc_calls' = enc_calls + 1
    /\ dec_calls' = 0
    /\ i' = 0
    /\ ret' = <<>>
    /\ stub' = decoders[ki].model
    /\ UNCHANGED <<n_best, batch_size, ki, results, word_lk,
                   active_beam_idx_list, beam_idx>>
    /\ UNCHANGED <<decoders, pvars>>

\* Lines 97-129: one pass of the decode loop up to the advance loop.
DecodeStep ==
    /\ pc = "loop"
    /\ loop_continues(i)
    /\ LET len_dec_seq == i + 1
           dec_partial_seq == dec_partial_seq_of(beams, batch_size, BeamSize)
           pos_rows == n_remaining_sents * BeamSize
           fits == /\ \A r \in 1 .. Len(dec_partial_seq) :
                         Len(dec_partial_seq[r]) = len_dec_seq
                   /\ Len(dec_partial_seq) = pos_rows
                   /\ Len(src_seq) = pos_rows
                   /\ Len(enc_output) = pos_rows
       IN IF fits
          THEN /\ word_lk' = word_lk_of(stub, dec_partial_seq, src_seq,
                                        enc_output, n_remaining_sents, BeamSize)
               /\ dec_calls' = dec_calls + 1
               /\ active_beam_idx_list' = <<>>
               /\ beam_idx' = 0
               /\ pc' = "advance"
               /\ err' = err
          ELSE /\ pc' = "raised"
               /\ err' = "RuntimeError"
               /\ UNCHANGED <<word_lk, dec_calls, active_beam_idx_list, beam_idx>>
    /\ UNCHANGED <<stub, n_best, batch_size, batch_inits, ki, results,
                   enc_calls, src_seq, enc_output, beams, beam_inst_idx_map,
                   n_remaining_sents, i, ret>>
    /\ UNCHANGED <<decoders, pvars>>

\* Lines 130-132: a beam that is done is passed over.
SkipDoneBeam ==
    /\ pc = "advance"
    /\ beam_idx < batch_size
    /\ passed_over(beams[beam_idx])
    /\ beam_idx' = next_beam_idx(beam_idx)
    /\ UNCHANGED <<pc, stub, n_best, batch_size, batch_inits, ki, results,
                   enc_calls, dec_calls, src_seq, enc_output, beams,
                   beam_inst_idx_map, n_remaining_sents, i, word_lk,
                   active_beam_idx_list, ret, err>>
    /\ UNCHANGED <<decoders, pvars>>

\* Lines 134-136: a beam that is not done is advanced on its slice.
AdvanceBeam ==
    /\ pc = "advance"
    /\ beam_idx < batch_size
    /\ ~passed_over(beams[beam_idx])
    /\ IF beam_idx \in DOMAIN beam_inst_idx_map
          /\ beam_inst_idx_map[beam_idx] + 1 \in DOMAIN word_lk
       THEN LET inst_idx == beam_inst_idx_map[beam_idx]
                after == advance(beams[beam_idx], word_lk[inst_idx + 1])
                returned == advance_returns(after)
            IN /\ beams' = [beams EXCEPT ![beam_idx] = after]
               /\ ret' = (beam_idx :> returned) @@ ret
               /\ active_beam_idx_list' =
                     IF stays_active(returned)
                     THEN Append(active_beam_idx_list, beam_idx)
                     ELSE active_beam_idx_list
               /\ beam_idx' = next_beam_idx(beam_idx)
               /\ UNCHANGED <<pc, err>>
       ELSE /\ pc' = "raised"
            /\ err' = IF beam_idx \in DOMAIN beam_inst_idx_map
                      THEN "IndexError" ELSE "KeyError"
            /\ UNCHANGED <<beams, ret, active_beam_idx_list, beam_idx>>
    /\ UNCHANGED <<stub, n_best, batch_size, batch_inits, ki, results,
                   enc_calls, dec_calls, src_seq, enc_output,
                   beam_inst_idx_map, n_remaining_sents, i, word_lk>>
    /\ UNCHANGED <<decoders, pvars>>

\* Lines 138-140: no beam is left in the active list: leave the loop.
BreakAllDone ==
    /\ pc = "advance"
    /\ beam_idx = batch_size
    /\ break_taken(active_beam_idx_list)
    /\ pc' = "extract"
    /\ UNCHANGED <<stub, n_best, batch_size, batch_inits, ki, results,
                   enc_calls, dec_calls, src_seq, enc_output, beams,
                   beam_inst_idx_map, n_remaining_sents, i, word_lk,
                   active_beam_idx_list, beam_idx, ret, err>>
    /\ UNCHANGED <<decoders, pvars>>

\* Lines 142-181: compaction of the working tensors and of the map.
Compact ==
    /\ pc = "advance"
    /\ beam_idx = batch_size
    /\ ~break_taken(active_beam_idx_list)
    /\ LET active_inst_idxs ==
              [j \in 1 .. Len(active_beam_idx_list) |->
                  beam_inst_idx_map[active_beam_idx_list[j]]]
           new_src == update_active_seq(src_seq, active_inst_idxs,
                                        n_remaining_sents)
           new_enc == update_active_enc_info(enc_output, active_inst_idxs,
                                             n_remaining_sents)
       IN IF new_src.ok /\ new_enc.ok
          THEN /\ beam_inst_idx_map' = enumerate_map(active_beam_idx_list)
               /\ src_seq' = new_src.val
               /\ enc_output' = new_enc.val
               /\ n_remaining_sents' = Len(active_inst_idxs)
               /\ i' = i + 1
               /\ pc' = "loop"
               /\ err' = err
          ELSE /\ pc' = "raised"
               /\ err' = "RuntimeError"
               /\ UNCHANGED <<beam_inst_idx_map, src_seq, enc_output,
                              n_remaining_sents, i>>
    /\ UNCHANGED <<stub, n_best, batch_size, batch_inits, ki, results,
                   enc_calls, dec_calls, beams, word_lk,
                   active_beam_idx_list, beam_idx, ret>>
    /\ UNCHANGED <<decoders, pvars>>

\* Line 97: range(decoder.n_max_seq) is exhausted.
LoopExhausted ==
    /\ pc = "loop"
    /\ ~loop_continues(i)
    /\ pc' = "extract"
    /\ UNCHANGED <<stub, n_best, batch_size, batch_inits, ki, results,
                   enc_calls, dec_calls, src_seq, enc_output, beams,
                   beam_inst_idx_map, n_remaining_sents, i, word_lk,
                   active_beam_idx_list, beam_idx, ret, err>>
    /\ UNCHANGED <<decoders, pvars>>

\* Lines 183-194: the n_best scores and hypotheses of every beam.
Extract ==
    /\ pc = "extract"
    /\ LET per_beam == [b \in Batch |-> extract_beam(beams[b], n_best)]
           all_hyp == [j \in 1 .. batch_size |-> per_beam[j - 1].hyps]
           all_scores == [j \in 1 .. batch_size |-> per_beam[j - 1].scores]
       IN results' = (Keys[ki] :> [hyp |-> all_hyp, scores |-> all_scores])
                     @@ results
    /\ ki' = ki + 1
    /\ pc' = "for_k"
    /\ UNCHANGED <<stub, n_best, batch_size, batch_inits, enc_calls,
                   dec_calls, src_seq, enc_output, beams, beam_inst_idx_map,
                   n_remaining_sents, i, word_lk, active_beam_idx_list,
                   beam_idx, ret, err>>
    /\ UNCHANGED <<decoders, pvars>>

\* Line 196: return results.
Return ==
    /\ pc = "for_k"
    /\ ki > Len(Keys)
    /\ pc' = "returned"
    /\ UNCHANGED <<stub, n_best, batch_size, batch_inits, ki, results,
                   enc_calls, dec_calls, src_seq, enc_output, beams,
                   beam_inst_idx_map, n_remaining_sents, i, word_lk,
                   active_beam_idx_list, beam_idx, ret, err>>
    /\ UNCHANGED <<decoders, pvars>>

Next ==
    \/ RaiseAssertion
    \/ BeginTarget
    \/ DecodeStep
    \/ SkipDoneBeam
    \/ AdvanceBeam
    \/ BreakAllDone
    \/ Compact
    \/ LoopExhausted
    \/ Extract
    \/ Return

Spec == Init /\ [][Next]_vars

\* ------------------------------------------------ several decoders
MultiBatch == 2

TargetNames == {"given_name", "family_name"}

\* The decoder of every target.  For given_name a stub of any style whose
\* instances finish at step 1, at step 2 or run to the cap; for
\* family_name one of two stubs (every instance finishing at step 1, or
\* running to the cap).
DecoderModels(n) ==
    {[given_name |-> g, family_name |-> f] :
        g \in {s \in Stubs(n) :
                 \A b \in 0 .. (n - 1) : s.fin[b] \in {1, 2, NMaxSeq + 1}},
        f \in {[fin |-> [b \in 0 .. (n - 1) |-> 1], style |-> "flat"],
               [fin |-> [b \in 0 .. (n - 1) |-> NMaxSeq + 1], style |-> "skew"]}}

\* self.model.decoders: one or two targets, in either order.
Configurations(models) ==
    {<<[k |-> a, model |-> models[a]]>> : a \in TargetNames}
    \cup {c \in {<<[k |-> a, model |-> models[a]],
                     [k |-> b, model |-> models[b]]>> :
                      a \in TargetNames, b \in TargetNames} :
             c[1].k # c[2].k}

\* translate_batch is called on a model with one or two decoders.
MultiInit ==
    /\ pc = "for_k"
    /\ batch_size \in 1 .. MultiBatch
    /\ \E models \in DecoderModels(batch_size) :
          decoders \in Configurations(models)
    /\ stub = decoders[1].model
    /\ n_best = BeamSize
    /\ batch_inits \in {[given |-> FALSE, toks |-> <<>>],
                        [given |-> TRUE, toks |-> [j \in 1 .. batch_size |-> BOS]],
                        [given |-> TRUE,
                         toks |-> [j \in 1 .. (batch_size + 1) |-> BOS]]}
    /\ ki = 1
    /\ results = <<>>
    /\ enc_calls = 0
    /\ dec_calls = 0
    /\ src_seq = <<>>
    /\ enc_output = <<>>
    /\ beams = <<>>
    /\ beam_inst_idx_map = <<>>
    /\ n_remaining_sents = 0
    /\ i = 0
    /\ word_lk = <<>>
    /\ active_beam_idx_list = <<>>
    /\ beam_idx = 0
    /\ ret = <<>>
    /\ err = ""
    /\ PreIdle

MultiSpec == MultiInit /\ [][Next]_vars

\* ------------------------------------------- the actions of main
\* translate_batch is not running.
DecodeIdle ==
    /\ pc = "idle"
    /\ stub = <<>>
    /\ n_best = 0
    /\ batch_size = 0
    /\ batch_inits = <<>>
    /\ ki = 0
    /\ results = <<>>
    /\ enc_calls = 0
    /\ dec_calls = 0
    /\ src_seq = <<>>
    /\ enc_output = <<>>
    /\ beams = <<>>
    /\ beam_inst_idx_map = <<>>
    /\ n_remaining_sents = 0
    /\ i = 0
    /\ word_lk = <<>>
    /\ active_beam_idx_list = <<>>
    /\ beam_idx = 0
    /\ ret = <<>>
    /\ err = ""
    /\ decoders = <<>>

\* main has called read_instances on the training file (line 182); the
\* parameters (lines 165-175) and the limit are drawn from small sets.
PreInit ==
    /\ ppc = "read"
    /\ opt \in [max_src_seq_len : 0 .. MaxSrcLen,
                min_word_count : 0 .. MaxMinCount,
                share_vocab : BOOLEAN]
    /\ rd \in {NewRead("train", limit) : limit \in Limits}
    /\ word2idx = word2idx_at_import
    /\ mn = [train_src_word_insts |-> <<>>, train_tgt_insts |-> <<>>,
             valid_src_word_insts |-> <<>>, valid_tgt_insts |-> <<>>,
             train_tgt_word_insts |-> <<>>,
             src_word2idx |-> "None", tgt_word2idx |-> "None",
             data |-> <<>>]
    /\ built = <<>>
    /\ perr = ""
    /\ DecodeIdle

\* Lines 119-126: one line of the file is read and encoded; its pairs are
\* appended; the loop is left when the limit is reached.
ReadLine ==
    /\ ppc = "read"
    /\ ~rd.broke
    /\ rd.num_instances < MaxLines
    /\ \E n \in DOMAIN Instances :
          LET r == encode_mimo_instance(IdOf(n), Instances[n],
                                        opt.max_src_seq_len)
          IN IF r.raised # ""
             THEN /\ ppc' = "raised"
                  /\ perr' = r.raised
                  /\ rd' = [rd EXCEPT !.num_instances = @ + 1, !.line = n]
             ELSE /\ \E pairs \in r.returns :
                        rd' = [rd EXCEPT
                                 !.num_instances = @ + 1,
                                 !.line = n,
                                 !.pairs = pairs,
                                 !.iids = @ \o [j \in DOMAIN pairs |-> pairs[j].iid],
                                 !.src_inst = @ \o [j \in DOMAIN pairs |-> pairs[j].src],
                                 !.tgt_inst = @ \o [j \in DOMAIN pairs |-> pairs[j].tgt],
                                 !.broke = rd.limit.given
                                           /\ rd.num_instances + 1 >= rd.limit.n]
                  /\ UNCHANGED <<ppc, perr>>
    /\ UNCHANGED <<opt, word2idx, mn, built, dvars>>

\* Lines 128-130 and 182-187: the file has no further line, or the loop
\* was left: read_instances returns its lists to main, which goes on to
\* the validation file or to the vocabulary.
ReadReturn ==
    /\ ppc = "read"
    /\ IF ~(Len(rd.iids) = Len(rd.src_inst)
            /\ Len(rd.src_inst) = Len(rd.tgt_inst))
       THEN /\ ppc' = "raised"
            /\ perr' = "AssertionError"
            /\ UNCHANGED <<rd, mn>>
       ELSE IF rd.path = "train"
       THEN /\ mn' = [mn EXCEPT !.train_src_word_insts = rd.src_inst,
                                !.train_tgt_insts = rd.tgt_inst]
            /\ \E limit \in Limits : rd' = NewRead("valid", limit)
            /\ UNCHANGED <<ppc, perr>>
       ELSE /\ mn' = [mn EXCEPT
                        !.valid_src_word_insts = rd.src_inst,
                        !.valid_tgt_insts = rd.tgt_inst,
                        !.train_tgt_word_insts =
                            values_of(mn.train_tgt_insts,
                                      Len(mn.train_tgt_insts))]
            /\ rd' = <<>>
            /\ ppc' = "build"
            /\ UNCHANGED perr
    /\ UNCHANGED <<opt, word2idx, built, dvars>>

\* Lines 198-202 (opt.vocab is None): one vocabulary for both sides.
BuildSharedVocab ==
    /\ ppc = "build"
    /\ opt.share_vocab
    /\ LET word_insts == mn.train_src_word_insts \o mn.train_tgt_word_insts
       IN \E order \in Orders(added_words(word2idx, word_insts,
                                             opt.min_word_count)) :
             word2idx' = build_vocab_idx(word2idx, word_insts,
                                         opt.min_word_count, order)
    /\ built' = Append(built, word2idx')
    /\ mn' = [mn EXCEPT !.src_word2idx = "word2idx",
                        !.tgt_word2idx = "word2idx"]
    /\ ppc' = "convert"
    /\ UNCHANGED <<opt, rd, perr, dvars>>

\* Lines 203-205: the vocabulary of the source side.
BuildSrcVocab ==
    /\ ppc = "build"
    /\ ~opt.share_vocab
    /\ \E order \in Orders(added_words(word2idx, mn.train_src_word_insts,
                                          opt.min_word_count)) :
          word2idx' = build_vocab_idx(word2idx, mn.train_src_word_insts,
                                      opt.min_word_count, order)
    /\ built' = Append(built, word2idx')
    /\ mn' = [mn EXCEPT !.src_word2idx = "word2idx"]
    /\ ppc' = "build_tgt"
    /\ UNCHANGED <<opt, rd, perr, dvars>>

\* Lines 206-207: the vocabulary of the target side.
BuildTgtVocab ==
    /\ ppc = "build_tgt"
    /\ \E order \in Orders(added_words(word2idx, mn.train_tgt_word_insts,
                                          opt.min_word_count)) :
          word2idx' = build_vocab_idx(word2idx, mn.train_tgt_word_insts,
                                      opt.min_word_count, order)
    /\ built' = Append(built, word2idx')
    /\ mn' = [mn EXCEPT !.tgt_word2idx = "word2idx"]
    /\ ppc' = "convert"
    /\ UNCHANGED <<opt, rd, perr, dvars>>

\* Lines 211-228: the word sequences become id sequences.
ConvertToIdx ==
    /\ ppc = "convert"
    /\ mn' = [mn EXCEPT !.data =
                [dict |-> [src |-> mn.src_word2idx, tgt |-> mn.tgt_word2idx],
                 train |->
                   [src |-> convert_instance_to_idx_seq(
                               mn.train_src_word_insts, Deref(mn.src_word2idx)),
                    tgt |-> convert_mimo_instances_to_idx_seq(
                               mn.train_tgt_insts, Deref(mn.tgt_word2idx))],
                 valid |->
                   [src |-> convert_instance_to_idx_seq(
                               mn.valid_src_word_insts, Deref(mn.src_word2idx)),
                    tgt |-> convert_mimo_instances_to_idx_seq(
                               mn.valid_tgt_insts, Deref(mn.tgt_word2idx))]]]
    /\ ppc' = "done"
    /\ UNCHANGED <<opt, rd, word2idx, built, perr, dvars>>

PreNext ==
    \/ ReadLine
    \/ ReadReturn
    \/ BuildSharedVocab
    \/ BuildSrcVocab
    \/ BuildTgtVocab
    \/ ConvertToIdx

PreSpec == PreInit /\ [][PreNext]_vars

\* =====================================================================
\* Properties
\* =====================================================================
AfterCompaction == pc = "loop" /\ i >= 1

\* Batch position b is in the active set: it has a block in the working
\* tensors that holds its own source and encoder rows, and its beam is
\* gathered for the decoder (not done).
InActiveSet(b) ==
    /\ b \in DOMAIN beam_inst_idx_map
    /\ ~beams[b].done
    /\ \A s \in Slots :
          LET r == beam_inst_idx_map[b] * BeamSize + s + 1
          IN /\ r \in DOMAIN src_seq /\ src_seq[r] = SrcRow(b)
             /\ r \in DOMAIN enc_output /\ enc_output[r] = EncRow(SrcRow(b))

\* Batch position b is out of the active set: no map entry, no row of its
\* own in the working tensors, and its beam is passed over (done).
OutOfActiveSet(b) ==
    /\ b \notin DOMAIN beam_inst_idx_map
    /\ beams[b].done
    /\ \A r \in DOMAIN src_seq : src_seq[r] # SrcRow(b)
    /\ \A r \in DOMAIN enc_output : enc_output[r] # EncRow(SrcRow(b))

\* A beam whose last advance returned true is never changed again while
\* the target is being decoded.
ReturnedTrueFrozen ==
    [][\A b \in DOMAIN ret :
          (ret[b] /\ b \in DOMAIN ret') => beams'[b] = beams[b]]_vars

\* C1 as stated: after the compaction of a step, a beam whose advance
\* returned false is out of the active set, and a beam whose advance
\* returned true is in it.
C1_AsStated ==
    AfterCompaction =>
        \A b \in DOMAIN ret :
            IF ret[b] THEN InActiveSet(b) ELSE OutOfActiveSet(b)

\* C1 amended (the polarity is the opposite): after the compaction of
\* every step, a beam whose advance returned true is out of the active set
\* (no map entry, no rows in the working source and encoder tensors, not
\* gathered) and is not advanced again, and a beam whose advance returned
\* false is in the active set for the next step.
C1_DroppedIffReturnedTrue ==
    /\ [](AfterCompaction =>
            \A b \in DOMAIN ret :
                IF ret[b] THEN OutOfActiveSet(b) ELSE InActiveSet(b))
    /\ ReturnedTrueFrozen

\* C1 witness: at the top of the third pass a beam that returned true at
\* step 1 is out, next to a beam that returned false and is still in.
C1_Witness ==
    /\ pc = "loop" /\ i = 2
    /\ \E b \in DOMAIN ret : ret[b] /\ Steps(beams[b]) = 1 /\ OutOfActiveSet(b)
    /\ \E b \in DOMAIN ret : ~ret[b] /\ Steps(beams[b]) = 2 /\ InActiveSet(b)

\* The instances still active: the batch positions whose beam is not done.
StillActive == {b \in Batch : ~beams[b].done}

\* C2: after each compaction the working source tensor and the encoder
\* output have exactly (instances still active) x beam_size rows.
C2_RowsAfterCompaction ==
    AfterCompaction =>
        /\ Len(src_seq) = Cardinality(StillActive) * BeamSize
        /\ Len(enc_output) = Cardinality(StillActive) * BeamSize

\* C2 witness: 3 instances, one finished at step 1; the tensors used at
\* step 2 have 2 x beam_size rows, not 3 x beam_size.
C2_Witness ==
    /\ pc = "loop" /\ i = 1 /\ batch_size = 3
    /\ Cardinality(StillActive) = 2
    /\ Len(src_seq) = 2 * BeamSize /\ Len(enc_output) = 2 * BeamSize
    /\ Len(src_seq) # 3 * BeamSize

\* The target whose results were stored last; its beams are still in place.
Extracted == pc \in {"for_k", "returned"} /\ ki > 1
LastKey == Keys[ki - 1]

\* C3: the decoder is invoked at most n_max_seq times per target and the
\* loop counters stay within their ranges; at the cap the loop is left for
\* the extraction; nothing is raised but the precondition failure; a beam
\* still not done at the cap has taken n_max_seq steps and gets a
\* hypothesis list whose entries are its partial sequences of that length.
C3_CappedAndNormal ==
    /\ dec_calls <= NMaxSeq
    /\ i <= NMaxSeq
    /\ (pc = "advance") => (beam_idx <= batch_size /\ dec_calls = i + 1)
    /\ (pc = "loop") => dec_calls = i
    /\ (pc = "loop" /\ i = NMaxSeq) => ENABLED LoopExhausted
    /\ (pc = "raised") => err = "AssertionError"
    /\ Extracted =>
          /\ err = ""
          /\ LastKey \in DOMAIN results
          /\ \A b \in Batch :
                ~beams[b].done =>
                   /\ Steps(beams[b]) = NMaxSeq
                   /\ dec_calls = NMaxSeq
                   /\ Len(results[LastKey].hyp[b + 1]) >= 1
                   /\ \A j \in DOMAIN results[LastKey].hyp[b + 1] :
                         /\ Len(results[LastKey].hyp[b + 1][j]) = NMaxSeq
                         /\ \E s \in Slots :
                               results[LastKey].hyp[b + 1][j]
                                  = get_hypothesis(beams[b], s)

\* C3 witness: the call has returned with a beam that never finished.
C3_Witness ==
    /\ pc = "returned" /\ err = "" /\ dec_calls = NMaxSeq
    /\ \E b \in Batch :
          /\ ~beams[b].done
          /\ Len(results[LastKey].hyp[b + 1][1]) = NMaxSeq
    /\ \E b \in Batch : beams[b].done

MaxSteps == CHOOSE n \in {Steps(beams[b]) : b \in Batch} :
               \A b \in Batch : Steps(beams[b]) <= n

\* C4: when the advance loop of a step ends with no beam active, the next
\* step of the call is the extraction: no decoder call, no compaction; and
\* the results of that target are stored without an error.
C4_EarlyStop ==
    /\ [][(pc = "advance" /\ beam_idx = batch_size /\ StillActive = {})
             => /\ pc' = "extract"
                /\ UNCHANGED <<dec_calls, src_seq, enc_output, i,
                               beam_inst_idx_map, n_remaining_sents, err>>]_vars
    /\ []((Extracted /\ StillActive = {}) =>
             /\ err = ""
             /\ LastKey \in DOMAIN results
             /\ dec_calls = MaxSteps
             /\ Len(src_seq) = n_remaining_sents * BeamSize
             /\ n_remaining_sents >= 1)

\* C4 witness: every beam of a batch of three is done before the cap and
\* the call is at the extraction, the tensors as the last step used them.
C4_Witness ==
    /\ pc = "extract" /\ StillActive = {} /\ batch_size = 3
    /\ dec_calls < NMaxSeq
    /\ Len(src_seq) = n_remaining_sents * BeamSize
    /\ n_remaining_sents = 1

\* The number of slots ranked before slot s: a higher score, or the same
\* score and a lower slot index.
RankOf(beam, s) ==
    Cardinality({t \in DOMAIN beam.scores :
                    \/ Less(beam.scores[s], beam.scores[t])
                    \/ (beam.scores[t] = beam.scores[s] /\ t < s)})

MinOf(a, b) == IF a < b THEN a ELSE b

\* C5: the stored result of a target has one hypothesis list and one score
\* list per batch position, in batch order, also for the positions that
\* were compacted out; list b holds min(n_best, beam_size) entries, entry
\* j being the score and the hypothesis of the slot of beam b that j - 1
\* slots outrank (higher score, ties by lower slot index).
C5_ResultsPerInstance ==
    Extracted =>
        /\ Len(results[LastKey].hyp) = batch_size
        /\ Len(results[LastKey].scores) = batch_size
        /\ \A b \in Batch :
              LET h == results[LastKey].hyp[b + 1]
                  sc == results[LastKey].scores[b + 1]
              IN /\ Len(h) = MinOf(n_best, BeamSize)
                 /\ Len(sc) = MinOf(n_best, BeamSize)
                 /\ \A j \in 1 .. MinOf(n_best, BeamSize) :
                       \E s \in Slots :
                          /\ RankOf(beams[b], s) = j - 1
                          /\ sc[j] = beams[b].scores[s]
                          /\ h[j] = get_hypothesis(beams[b], s)
                 /\ \A j \in 1 .. (Len(sc) - 1) : ~Less(sc[j], sc[j + 1])

\* C5 witness: three instances, the middle one finished at step 1 and was
\* compacted out while the others went on; its list has n_best = beam_size
\* entries of length 1, two of its slots tie.
C5_Witness ==
    /\ pc = "returned" /\ batch_size = 3 /\ n_best = BeamSize
    /\ Steps(beams[1]) = 1 /\ Steps(beams[0]) > 1 /\ Steps(beams[2]) > 1
    /\ 1 \notin DOMAIN beam_inst_idx_map
    /\ Len(results[LastKey].hyp[2]) = BeamSize
    /\ Len(results[LastKey].hyp[2][1]) = 1
    /\ \E b \in Batch : beams[b].scores[0] = beams[b].scores[1]

\* C6: a batch_inits of the wrong length makes the call raise at the
\* assertion with no encoder or decoder call made, no Beam created and no
\* result stored.
C6_FailFast ==
    (batch_inits.given /\ Len(batch_inits.toks) # batch_size) =>
        /\ pc \in {"for_k", "raised"}
        /\ (pc = "for_k") => (ki = 1 /\ ENABLED RaiseAssertion /\ ~ENABLED BeginTarget)
        /\ (pc = "raised") => err = "AssertionError"
        /\ enc_calls = 0
        /\ dec_calls = 0
        /\ beams = <<>>
        /\ results = <<>>

\* C6 witness: the call has raised on a list one token too long.
C6_Witness ==
    /\ pc = "raised" /\ err = "AssertionError"
    /\ Len(batch_inits.toks) = batch_size + 1
    /\ enc_calls = 0

\* The log-probabilities the decoder gives for the row of batch position
\* b whose partial target sequence is prefix.
RowOf(b, prefix) == StubRow(stub, SrcRow(b), EncRow(SrcRow(b)), prefix)

\* post is pre advanced on lk with exactly the Width(pre) best of the
\* Width(pre) x vocab_size candidates selected: slot k of post holds the
\* candidate of rank k (score = slot score + log-probability, higher first,
\* ties by lower flattened index = lower slot, then lower token).
SelectsTop(pre, lk, post) ==
    LET nv == Cardinality(DOMAIN lk[0])
        n == Steps(post)
        sc(f) == Plus(pre.scores[f \div nv], lk[f \div nv][f % nv])
        fl(k) == post.backpointers[n][k] * nv + post.tokens[k][n]
        Before(f, g) == Less(sc(g), sc(f)) \/ (sc(f) = sc(g) /\ f < g)
    IN /\ n = Steps(pre) + 1
       /\ DOMAIN post.scores = DOMAIN pre.scores
       /\ SubSeq(post.backpointers, 1, n - 1) = pre.backpointers
       /\ \A k \in DOMAIN pre.scores :
             /\ post.backpointers[n][k] \in DOMAIN pre.scores
             /\ post.tokens[k][n] \in DOMAIN lk[0]
             /\ SubSeq(post.tokens[k], 1, n - 1) = pre.tokens[k]
             /\ post.scores[k] = sc(fl(k))
       /\ \A k, m \in DOMAIN pre.scores : k < m => Before(fl(k), fl(m))
       /\ \A g \in 0 .. (Width(pre) * nv - 1) :
             (\A k \in DOMAIN pre.scores : fl(k) # g)
                => \A k \in DOMAIN pre.scores : Before(fl(k), g)

\* C7: every advance call of translate_batch selects exactly the width
\* candidates with the highest (slot score + log-probability), in
\* decreasing order, ties broken by the lower flattened index.
C7_AdvanceSelectsTop ==
    [][(pc = "advance" /\ pc' = "advance" /\ beam_idx' = beam_idx + 1
          /\ ~beams[beam_idx].done)
         => SelectsTop(beams[beam_idx],
                       word_lk[beam_inst_idx_map[beam_idx] + 1],
                       beams'[beam_idx])]_vars

\* C7 witness: a second step in which the best candidate extends slot 1
\* and the runner-up, tied with candidates of higher flattened index,
\* extends slot 0.
C7_Witness ==
    /\ pc = "advance" /\ stub.style = "skew"
    /\ \E b \in DOMAIN beams :
          /\ Steps(beams[b]) = 2
          /\ beams[b].backpointers[2][0] = 1
          /\ beams[b].backpointers[2][1] = 0
          /\ beams[b].scores[1] = Fin(-2)
          /\ \E v \in Vocab :
                /\ v # beams[b].tokens[0][2]
                /\ Plus(Fin(-1), RowOf(b, <<BOS, 0>>)[v]) = Fin(-2)

\* C8: a new beam scores 0 in slot 0 and minus infinity elsewhere, and
\* after its first advance (width > 1, vocab_size >= width) every slot
\* extends slot 0 and the slots carry distinct tokens, the highest-scoring
\* ones of row 0.
C8_FirstStepFansOut ==
    (BeamSize > 1 /\ VocabSize >= BeamSize) =>
        \A b \in DOMAIN beams :
            /\ Steps(beams[b]) = 0 =>
                  /\ beams[b].scores[0] = Fin(0)
                  /\ \A s \in Slots \ {0} : beams[b].scores[s] = NegInf
            /\ Steps(beams[b]) >= 1 =>
                  LET row == RowOf(b, <<beams[b].init>>)
                      picked == {beams[b].tokens[s][1] : s \in Slots}
                  IN /\ \A s \in Slots : beams[b].backpointers[1][s] = 0
                     /\ Cardinality(picked) = BeamSize
                     /\ \A v \in Vocab \ picked :
                           \A t \in picked : row[v] <= row[t]

\* C8 witness: a beam after its first advance, its slots holding distinct
\* tokens that all extend slot 0, in a run whose rows do not tie.
C8_Witness ==
    /\ pc = "advance" /\ BeamSize > 1 /\ stub.style = "skew"
    /\ \E b \in DOMAIN beams :
          /\ Steps(beams[b]) = 1
          /\ \A s \in Slots : beams[b].backpointers[1][s] = 0
          /\ beams[b].tokens[0][1] # beams[b].tokens[1][1]

\* C9: a beam is done exactly when the token of its highest-ranked slot at
\* its last step is EOS, and at no earlier step was that token EOS; a beam
\* whose decoder scores EOS highest at step 2 and that reaches step 2 is
\* done at step 2, and its top-1 hypothesis has length 2 and ends in EOS.
C9_DoneAtFirstTopEos ==
    /\ \A b \in DOMAIN beams :
          LET n == Steps(beams[b])
          IN /\ beams[b].done <=> (n >= 1 /\ beams[b].tokens[0][n] = EOS)
             /\ \A j \in 1 .. (n - 1) : beams[b].tokens[0][j] # EOS
             /\ (stub.fin[b] = 2 /\ n >= 2) => (beams[b].done /\ n = 2)
    /\ Extracted =>
          \A b \in Batch :
             (stub.fin[b] = 2 /\ Steps(beams[b]) = 2) =>
                /\ Len(results[LastKey].hyp[b + 1][1]) = 2
                /\ results[LastKey].hyp[b + 1][1][2] = EOS

\* C9 witness: beam width 2, a beam whose EOS came first at step 2, done
\* there, returned with a top-1 hypothesis of two tokens ending in EOS.
C9_Witness ==
    /\ pc = "returned" /\ BeamSize = 2
    /\ \E b \in Batch :
          /\ stub.fin[b] = 2 /\ beams[b].done /\ Steps(beams[b]) = 2
          /\ Len(results[LastKey].hyp[b + 1][1]) = 2
          /\ results[LastKey].hyp[b + 1][1][1] # EOS
          /\ results[LastKey].hyp[b + 1][1][2] = EOS

\* The sum of the log-probabilities the decoder gives the tokens of hyp
\* when hyp is fed again, token by token, after the init token.
RECURSIVE Refeed(_, _, _, _)
Refeed(b, init, hyp, j) ==
    IF j = 0 THEN 0
    ELSE Refeed(b, init, hyp, j - 1)
         + RowOf(b, <<init>> \o SubSeq(hyp, 1, j - 1))[hyp[j]]

\* C10: the hypothesis of every slot has one token per step taken, ends in
\* the slot's last token, and feeding it again through the decoder adds up
\* to the slot's cumulative score.
C10_HypothesisRoundTrip ==
    \A b \in DOMAIN beams :
       \A s \in Slots :
          LET hyp == get_hypothesis(beams[b], s)
              n == Steps(beams[b])
          IN /\ Len(hyp) = n
             /\ n >= 1 =>
                   /\ hyp[n] = beams[b].tokens[s][n]
                   /\ beams[b].scores[s]
                         = Fin(Refeed(b, beams[b].init, hyp, n))

\* C10 witness: after three steps a slot whose hypothesis is not the
\* column of tokens stored under its own index.
C10_Witness ==
    \E b \in DOMAIN beams :
       /\ Steps(beams[b]) = 3
       /\ \E s \in Slots :
             /\ beams[b].backpointers[2][s] # s
             /\ get_hypothesis(beams[b], s) # beams[b].tokens[s]

\* ---------------------------------------------------- preprocessing
\* The three kinds of instance that are filtered out: the summary is
\* missing or empty; the mention list is empty; the instance has mentions
\* and relations, and no relation names a configured target with a
\* non-empty value.
SummaryMissingOrEmpty(inst) ==
    "summary" \notin inst.keys \/ inst.summary = <<>>

MentionListEmpty(inst) ==
    "mentions" \in inst.keys /\ inst.mentions = <<>>

NoQualifyingRelation(inst) ==
    /\ "mentions" \in inst.keys
    /\ "relations" \in inst.keys
    /\ \A j \in DOMAIN inst.relations :
          \/ inst.relations[j][2] = <<>>
          \/ \A t \in DOMAIN targets :
                normalize_relation_name(targets[t].name)
                   # normalize_relation_name(inst.relations[j][1])

FilteredOut(inst) ==
    \/ SummaryMissingOrEmpty(inst)
    \/ MentionListEmpty(inst)
    \/ NoQualifyingRelation(inst)

Wrapped(seq, max) ==
    /\ Len(seq) >= 2
    /\ Len(seq) <= max + 2
    /\ seq[1] = BOS_WORD
    /\ seq[Len(seq)] = EOS_WORD

\* An id sequence as long as the word sequence, in the sentinels' ids.
IdsOf(ids, seq) ==
    /\ Len(ids) = Len(seq)
    /\ ids[1] = BOS
    /\ ids[Len(ids)] = EOS

MaxLenOf(name) ==
    targets[CHOOSE t \in DOMAIN targets :
               normalize_relation_name(targets[t].name) = name].max_len

SourcesWrapped(src_insts) ==
    \A n \in DOMAIN src_insts : Wrapped(src_insts[n], opt.max_src_seq_len)

TargetsWrapped(tgt_insts) ==
    \A n \in DOMAIN tgt_insts :
       \A e \in DOMAIN tgt_insts[n] :
          Wrapped(tgt_insts[n][e][2], MaxLenOf(tgt_insts[n][e][1]))

SourcesConverted(ids, src_insts) ==
    /\ Len(ids) = Len(src_insts)
    /\ \A n \in DOMAIN src_insts : IdsOf(ids[n], src_insts[n])

TargetsConverted(ids, tgt_insts) ==
    /\ Len(ids) = Len(tgt_insts)
    /\ \A n \in DOMAIN tgt_insts :
          /\ Len(ids[n]) = Len(tgt_insts[n])
          /\ \A e \in DOMAIN tgt_insts[n] :
                /\ ids[n][e][1] = tgt_insts[n][e][1]
                /\ IdsOf(ids[n][e][2], tgt_insts[n][e][2])

\* C12: every source sequence encode_mimo_instance produces is in
\* BOS .. EOS with at most max_src_len + 2 tokens, every target sequence
\* with at most max_len + 2 tokens of its target, and the id sequences
\* have the same lengths and the ids of the sentinels at both ends.
C12_BoundedAndWrapped ==
    /\ (ppc = "read") =>
          /\ \A j \in DOMAIN rd.pairs :
                /\ Wrapped(rd.pairs[j].src, opt.max_src_seq_len)
                /\ TargetsWrapped(<<rd.pairs[j].tgt>>)
          /\ SourcesWrapped(rd.src_inst)
          /\ TargetsWrapped(rd.tgt_inst)
    /\ (ppc # "idle") =>
          /\ SourcesWrapped(mn.train_src_word_insts)
          /\ SourcesWrapped(mn.valid_src_word_insts)
          /\ TargetsWrapped(mn.train_tgt_insts)
          /\ TargetsWrapped(mn.valid_tgt_insts)
    /\ (ppc = "done") =>
          /\ SourcesConverted(mn.data.train.src, mn.train_src_word_insts)
          /\ SourcesConverted(mn.data.valid.src, mn.valid_src_word_insts)
          /\ TargetsConverted(mn.data.train.tgt, mn.train_tgt_insts)
          /\ TargetsConverted(mn.data.valid.tgt, mn.valid_tgt_insts)

\* C12 witness: a converted training pair whose source was cut to
\* max_src_len and whose target was cut to max_len, with a word that
\* became UNK in between the sentinels.
C12_Witness ==
    /\ ppc = "done"
    /\ opt.max_src_seq_len = 2
    /\ \E n \in DOMAIN mn.train_src_word_insts :
          /\ Len(mn.train_src_word_insts[n]) = 4
          /\ \E e \in DOMAIN mn.train_tgt_insts[n] :
                /\ mn.train_tgt_insts[n][e][1] = "<given_name>"
                /\ Len(mn.train_tgt_insts[n][e][2]) = 5
                /\ mn.data.train.tgt[n][e][2][1] = BOS
                /\ mn.data.train.tgt[n][e][2][3] = UNK
                /\ mn.data.train.tgt[n][e][2][5] = EOS

\* C13 as stated: a mapping build_vocab_idx has returned is the same ever
\* after (the object returned is the module's dictionary), and the ids of
\* the special words and of the target markers are those of the import.
C13_AsStated ==
    (ppc # "idle") =>
        /\ \A c \in DOMAIN built : word2idx = built[c]
        /\ \A w \in DOMAIN word2idx_at_import :
              w \in DOMAIN word2idx /\ word2idx[w] = word2idx_at_import[w]

\* ------------------------------------------------- the working tensors
\* The beams that entered the current step: not done when the decoder was
\* invoked (a beam done now has taken the step that finished it).
EnteredStep == {b \in Batch : ~beams[b].done \/ Steps(beams[b]) = i + 1}

\* The block of batch position b in the working tensors holds beam_size
\* copies of b's own source row and encoder row.
OwnRows(b) ==
    /\ b \in DOMAIN beam_inst_idx_map
    /\ \A s \in Slots :
          LET r == beam_inst_idx_map[b] * BeamSize + s + 1
          IN /\ r \in DOMAIN src_seq /\ src_seq[r] = SrcRow(b)
             /\ r \in DOMAIN enc_output /\ enc_output[r] = EncRow(SrcRow(b))

\* The slice of word_lk at b's block is what the decoder gives for b's own
\* source on the states of b's slots.
OwnSlice(b) ==
    /\ beam_inst_idx_map[b] + 1 \in DOMAIN word_lk
    /\ word_lk[beam_inst_idx_map[b] + 1]
          = [s \in Slots |-> RowOf(b, get_current_state(beams[b])[s])]

\* C14: whatever compactions have happened, the block of every instance
\* still active is made of its own source and encoder rows, and the slice
\* a beam is about to be advanced on was computed from its own state and
\* its own source.
C14_OwnRowsAndSlice ==
    /\ (pc = "loop") => \A b \in StillActive : OwnRows(b)
    /\ (pc = "advance") =>
          /\ \A b \in EnteredStep : OwnRows(b)
          /\ \A b \in StillActive : b >= beam_idx => OwnSlice(b)

\* C14 witness: after two compactions the last of three instances sits at
\* block 0 and is about to be advanced on its own slice.
C14_Witness ==
    /\ pc = "advance" /\ i = 2 /\ batch_size = 3 /\ beam_idx = 2
    /\ beams[0].done /\ beams[1].done /\ ~beams[2].done
    /\ Steps(beams[0]) # Steps(beams[1])
    /\ beam_inst_idx_map[2] = 0
    /\ OwnRows(2) /\ OwnSlice(2)

\* The rows gathered for the decoder: the current states of the beams not
\* done.
Gathered == dec_partial_seq_of(beams, batch_size, BeamSize)

DecoderInvoked == pc = "loop" /\ loop_continues(i)

\* C15: when the decoder is invoked, the beams not done are as many as
\* n_remaining_sents and as the entries of the map, each of them has an
\* entry, and the partial targets, the positions, the sources and the
\* encoder output all have (that many) x beam_size rows.
C15_ActiveCountsAgree ==
    DecoderInvoked =>
        /\ Cardinality(StillActive) = n_remaining_sents
        /\ Cardinality(DOMAIN beam_inst_idx_map) = n_remaining_sents
        /\ StillActive \subseteq DOMAIN beam_inst_idx_map
        /\ Len(Gathered) = Cardinality(StillActive) * BeamSize
        /\ n_remaining_sents * BeamSize = Cardinality(StillActive) * BeamSize
        /\ Len(src_seq) = Cardinality(StillActive) * BeamSize
        /\ Len(enc_output) = Cardinality(StillActive) * BeamSize

\* C15 witness: the third invocation of a batch of three with one beam
\* left.
C15_Witness ==
    /\ DecoderInvoked /\ i = 2 /\ batch_size = 3
    /\ n_remaining_sents = 1
    /\ Len(Gathered) = BeamSize /\ Len(enc_output) = BeamSize

\* C16: the map is the identity on the batch when decoding starts; after
\* every rebuild its entries are exactly the batch positions still active,
\* its values exactly 0 .. R - 1 for the R instances remaining, and it
\* keeps the ascending batch order.
C16_MapBijection ==
    /\ (pc = "loop" /\ i = 0) =>
          /\ DOMAIN beam_inst_idx_map = Batch
          /\ \A b \in Batch : beam_inst_idx_map[b] = b
    /\ AfterCompaction =>
          /\ DOMAIN beam_inst_idx_map = StillActive
          /\ \A b \in Batch : beams[b].done => b \notin DOMAIN beam_inst_idx_map
          /\ {beam_inst_idx_map[b] : b \in DOMAIN beam_inst_idx_map}
                = 0 .. (n_remaining_sents - 1)
          /\ Cardinality(DOMAIN beam_inst_idx_map) = n_remaining_sents
          /\ \A a, b \in DOMAIN beam_inst_idx_map :
                a < b => beam_inst_idx_map[a] < beam_inst_idx_map[b]

\* C16 witness: the first of three instances has finished; the map sends
\* positions 1 and 2 to 0 and 1.
C16_Witness ==
    /\ AfterCompaction /\ batch_size = 3
    /\ DOMAIN beam_inst_idx_map = {1, 2}
    /\ beam_inst_idx_map[1] = 0 /\ beam_inst_idx_map[2] = 1

\* C17: an advance call takes a beam from step t to step t + 1 only after
\* t compactions, in the pass of the t + 1st decoder call, when every beam
\* not done has taken step t and no beam after it in the batch has taken
\* step t + 1; it changes that one beam, once.
C17_StepsInLockstep ==
    [][(pc = "advance" /\ beams' # beams) =>
          \E b \in Batch :
             /\ b = beam_idx
             /\ \A c \in Batch \ {b} : beams'[c] = beams[c]
             /\ Steps(beams'[b]) = Steps(beams[b]) + 1
             /\ Steps(beams[b]) = i
             /\ dec_calls = i + 1
             /\ Len(src_seq) = n_remaining_sents * BeamSize
             /\ \A c \in Batch :
                   /\ ~beams[c].done => Steps(beams[c]) \in {i, i + 1}
                   /\ (~beams[c].done /\ c < b) => Steps(beams[c]) = i + 1
                   /\ c > b => Steps(beams[c]) <= i]_vars

\* C17 witness: in the second step of a batch of three the last beam has
\* been advanced after the other two.
C17_Witness ==
    /\ pc = "advance" /\ i = 1 /\ batch_size = 3 /\ beam_idx = 3
    /\ \A b \in Batch : Steps(beams[b]) = 2

\* C18: every slot of every beam holds as many tokens as the beam has
\* completed steps, which for a beam not done is the number of steps of
\* the loop; the states gathered at step t = i + 1 all have t tokens and
\* make (beams not done) x width rows.
C18_TokenLengths ==
    /\ \A b \in DOMAIN beams :
          /\ \A s \in Slots : Len(beams[b].tokens[s]) = Steps(beams[b])
          /\ Steps(beams[b]) <= dec_calls
          /\ (pc = "loop" /\ ~beams[b].done) => Steps(beams[b]) = i
          /\ (pc = "advance" /\ ~beams[b].done) =>
                Steps(beams[b]) = (IF b < beam_idx THEN i + 1 ELSE i)
    /\ DecoderInvoked =>
          /\ Len(Gathered) = Cardinality(StillActive) * BeamSize
          /\ \A r \in DOMAIN Gathered : Len(Gathered[r]) = i + 1

\* C18 witness: the third decoder call with a beam that finished at step 1
\* next to two beams of two tokens per slot.
C18_Witness ==
    /\ DecoderInvoked /\ i = 2 /\ batch_size = 3
    /\ \E b \in Batch : beams[b].done /\ Len(beams[b].tokens[0]) = 1
    /\ Cardinality(StillActive) = 2
    /\ \A r \in DOMAIN Gathered : Len(Gathered[r]) = 3

\* C19: a beam that is done is not advanced: no step changes it until the
\* next target's beams replace it, the advance loop never reaches for its
\* slice (which would raise), and no row gathered for the decoder is a
\* state of a beam that is done.
C19_DoneBeamsLeftAlone ==
    /\ [][\A b \in DOMAIN beams :
             (beams[b].done /\ pc # "for_k") =>
                 (b \in DOMAIN beams' /\ beams'[b] = beams[b])]_vars
    /\ [](err \notin {"KeyError", "IndexError", "RuntimeError"})
    /\ [](DecoderInvoked =>
             \A r \in DOMAIN Gathered :
                \E b \in StillActive :
                   /\ (r - 1) \div BeamSize = beam_inst_idx_map[b]
                   /\ Gathered[r]
                         = get_current_state(beams[b])[(r - 1) % BeamSize])

\* C19 witness: a beam done at step 1 is passed over in the third step
\* while another beam is still being decoded.
C19_Witness ==
    /\ pc = "advance" /\ i = 2
    /\ \E b \in Batch :
          /\ beams[b].done /\ Steps(beams[b]) = 1 /\ b < beam_idx
          /\ b \notin DOMAIN beam_inst_idx_map
    /\ \E b \in Batch : ~beams[b].done /\ Steps(beams[b]) = 3

\* ------------------------------------------------- several targets
\* The state in which the decode loop of a target starts when the call
\* was given n source rows and the initial tokens inits (lines 69-94).
FreshDecode(n, inits) ==
    [beams |-> [b \in 0 .. (n - 1) |-> Beam(BeamSize, inits[b + 1])],
     map |-> [b \in 0 .. (n - 1) |-> b],
     n_rem |-> n,
     src |-> repeat_for_beam([j \in 1 .. n |-> SrcRow(j - 1)], BeamSize),
     enc |-> repeat_for_beam([j \in 1 .. n |-> EncRow(SrcRow(j - 1))],
                             BeamSize)]

\* The batch positions below n, ascending, whose beam went into the step
\* not done and came out of it unfinished.
RECURSIVE ActiveAfter(_, _, _)
ActiveAfter(before, after, n) ==
    IF n = 0 THEN <<>>
    ELSE ActiveAfter(before, after, n - 1)
         \o (IF ~before[n - 1].done /\ ~after[n - 1].done
             THEN <<n - 1>> ELSE <<>>)

\* f itself; merging with the empty function has TLC compute the values
\* of f once instead of at every application.
Computed(f) == f @@ <<>>

\* The beams a target's decode ends with when it is run on its own from
\* the decode state d, step passes having been made.
RECURSIVE RunAlone(_, _, _, _)
RunAlone(model, n, d, step) ==
    IF step >= NMaxSeq THEN d.beams
    ELSE LET rows == Computed(dec_partial_seq_of(d.beams, n, BeamSize))
             lk == Computed(word_lk_of(model, rows, d.src, d.enc, d.n_rem,
                                       BeamSize))
             after == Computed([b \in 0 .. (n - 1) |->
                                  IF d.beams[b].done THEN d.beams[b]
                                  ELSE advance(d.beams[b], lk[d.map[b] + 1])])
             act == ActiveAfter(d.beams, after, n)
             idxs == [j \in DOMAIN act |-> d.map[act[j]]]
         IN IF act = <<>> THEN after
            ELSE RunAlone(model, n,
                          [beams |-> after,
                           map |-> enumerate_map(act),
                           n_rem |-> Len(act),
                           src |-> Computed(select_blocks(d.src, BeamSize, idxs)),
                           enc |-> Computed(select_blocks(d.enc, BeamSize, idxs))],
                          step + 1)

\* The initial tokens of the call: those given, or the first token of
\* every source row.
CallInits ==
    IF batch_inits.given THEN batch_inits.toks
    ELSE [j \in 1 .. batch_size |-> SrcRow(j - 1)[1]]

\* What translate_batch stores for target k when k's decoder is the only
\* one configured.
ResultAlone(k) ==
    LET model == decoders[CHOOSE j \in DOMAIN decoders : decoders[j].k = k].model
        ends == RunAlone(model, batch_size,
                         FreshDecode(batch_size, CallInits), 0)
    IN [hyp |-> [j \in 1 .. batch_size |->
                    extract_beam(ends[j - 1], n_best).hyps],
        scores |-> [j \in 1 .. batch_size |->
                       extract_beam(ends[j - 1], n_best).scores]]

\* C20: the encoder is invoked once per target; the decode loop of every
\* target starts from the full batch (fresh beams on the same initial
\* tokens, identity map, every instance remaining, the replicated rows of
\* the original batch); and what is stored for the targets decoded so far
\* is, whenever a target has been completed and at the return, what
\* decoding each of them alone stores.
C20_TargetsIndependent ==
    /\ (pc \in {"loop", "advance", "extract"}) => enc_calls = ki
    /\ (pc \in {"for_k", "returned"}) => enc_calls = ki - 1
    /\ (pc = "loop" /\ i = 0) =>
          LET d == FreshDecode(batch_size, CallInits)
          IN /\ beams = d.beams
             /\ beam_inst_idx_map = d.map
             /\ n_remaining_sents = d.n_rem
             /\ src_seq = d.src
             /\ enc_output = d.enc
             /\ dec_calls = 0
             /\ stub = decoders[ki].model
    /\ Extracted => \A k \in DOMAIN results : results[k] = ResultAlone(k)
    /\ (pc \notin {"for_k", "raised"}) =>
          DOMAIN results = {decoders[j].k : j \in 1 .. (ki - 1)}
    /\ (pc = "returned") => DOMAIN results = {decoders[j].k : j \in DOMAIN decoders}

\* C20 witness: two targets decoded one after the other on two instances,
\* the first ending on compacted tensors, with different results.
C20_Witness ==
    /\ pc = "returned" /\ Len(decoders) = 2 /\ batch_size = 2
    /\ decoders[1].k = "family_name" /\ decoders[1].model.style = "skew"
    /\ enc_calls = 2
    /\ Steps(beams[0]) # Steps(beams[1])
    /\ results["given_name"] # results["family_name"]

====
